---- MODULE Spec2Model ----
(***************************************************************************)
(* Model of the authentication engine of @trust-proto/auth-node            *)
(* (class LiberionAuth, liberion-auth.ts): the session table, the          *)
(* connections bound to it, the handlers of the protocol commands with     *)
(* their suspension points, the close handler and the session timers.      *)
(***************************************************************************)
EXTENDS Integers, Sequences, FiniteSets, TLC

\* ------------------------------------------------------------------ bounds
\* connections the server accepts in one behaviour, at most
NConn == 6
\* handlers suspended at an await at the same time
MaxTasks == 2
\* reconnects that replay the cached outcome of one session
MaxReplays == 2
\* the parts the connections play, in the order they connect
Casts ==
  { <<"browser", "gate", "wallet", "returning">>,
    <<"browser", "gate", "gate", "wallet">> }

\* ------------------------------------------------------------- value sets
Conn == 1..NConn
\* a session object is named by the connection whose newClient created it;
\* its sessionId (a fresh uuid, never reassigned) is identified with that name
NoSession == 0
\* session.address before activation
NullAddr == "null"
\* the address values an activate payload may carry; "" stands for every falsy
\* value (empty string, or a missing field decoded as undefined)
Addr == {"", "a1"}
\* clientSessionId before activation; a minted one is <<s, n>>: the n-th uuid
\* minted for session object s
NoCsid == <<0, 0>>
\* the token an onSuccess result may carry; NoToken: the result has no token
NoToken == "none"
Tokens == {"t1", "t2"}
\* close codes of a 'close' event: 1006 stands for every abnormal code
CloseCodes == {1000, 1001, 1006}

VARIABLES
  sessions,      \* this.sessions: clientId -> session object (NoSession: no entry)
  heap,          \* the session objects, by name
  ready,         \* readyState of each connection: NEW (not yet accepted), OPEN, CLOSED
  timersFired,   \* the timers armed by newClient fire in the order they were armed
  known,         \* the ids the peers have been sent: [sid, csid], sets of session objects
  tasks,         \* handlers suspended at an await
  role,          \* the part each connection plays, fixed by the cast
  successCalls,  \* per session object: invocations of onSuccess resolved to it
  declineCalls,  \* per session object: invocations of onDecline
  replays,       \* per session object: reconnects that delivered a cached outcome
  ev,            \* what the last step did: operation, messages sent, hooks invoked
  rpc,           \* a TrustGateClient: its socket, requestId, pendingRequests, promises
  isAlive,       \* ws.isAlive of each connection
  aes            \* a buffer on its way through encryptBuffer and decryptBuffer

vars == <<sessions, heap, ready, timersFired, known, tasks, role,
          successCalls, declineCalls, replays, ev, rpc, isAlive, aes>>

\* ------------------------------------------------------------- constants
COMMAND_ACTIVATE == "activate"
COMMAND_READY == "ready"
COMMAND_AUTH == "auth"
COMMAND_AUTH_RESULT == "auth_result"
COMMAND_AUTH_INIT == "auth_init"
COMMAND_ACTIVATED == "activated"
COMMAND_AUTH_DECLINED == "declined"
COMMAND_AUTH_TIMEOUT == "timeout"
COMMAND_RECONNECT == "reconnect"
COMMAND_CONNECTION_FAILED == "connection_failed"
COMMAND_ERROR == "error"
COMMAND_HEALTH == "health"
STATUS_FAILED == "error"

\* DECLINE_REASON, chosen from the command (responseFailed's switch)
DeclineReason(command) ==
  CASE command = COMMAND_AUTH_DECLINED -> "user_declined"
    [] command = COMMAND_AUTH_TIMEOUT -> "timeout"
    [] command = COMMAND_CONNECTION_FAILED -> "error"
    [] command = COMMAND_ERROR -> "error"
    [] OTHER -> "unknown"

\* ---------------------------------------------------------------- messages
\* every message is a map with the discriminator "_"; the fields a command
\* does not carry are "-"
Msg(cmd, message) ==
  [cmd |-> cmd, message |-> message, token |-> "-", csid |-> <<0, 0>>, sid |-> 0,
   status |-> "-"]
ErrorMsg(error) == Msg(COMMAND_ERROR, error)

\* a session object as newClient creates it
NewSession(c) ==
  [client |-> c, sessionId |-> c, address |-> NullAddr, clientSessionId |-> NoCsid,
   isBrowserSession |-> FALSE, authResult |-> NoToken, declineResult |-> FALSE]

\* JavaScript truthiness of an address value
Truthy(a) == a # NullAddr /\ a # ""

\* a TrustGateClient as its constructor leaves it: no socket, requestId 0, no
\* pending request; promise tells what became of the promise send() returned
\* for an id, resolves and rejects count the calls of its two callbacks
MaxRequests == 3
RequestIds == 1..MaxRequests

NewTrustGateClient ==
  [ws |-> "NONE", requestId |-> 0, pending |-> {}, timers |-> {},
   promise |-> [id \in RequestIds |-> "none"],
   resolves |-> [id \in RequestIds |-> 0],
   rejects |-> [id \in RequestIds |-> 0]]

\* ---------------------------------------------------- the state in a step
\* The handlers are sequences of calls; each call is an operator from the
\* state so far to the state after it. sends and hooks collect what the step
\* transmitted and which hooks it invoked, spawn the handler it suspends.
Here ==
  [sessions |-> sessions, heap |-> heap, ready |-> ready, known |-> known,
   sends |-> <<>>, hooks |-> <<>>, replayed |-> NoSession, spawn |-> {}]

\* send: transmits only on an OPEN connection
send(st, c, msg) ==
  IF st.ready[c] = "OPEN"
  THEN [st EXCEPT !.sends = Append(@, [to |-> c, msg |-> msg])]
  ELSE st

\* ws terminate(): the socket leaves OPEN at once. Its 'close' event comes
\* later; closeClient has deleted the entry of the connection by then, and only
\* newClient and a reconnect sent on the connection itself (which needs it
\* OPEN) give a connection an entry, so that handleClose returns at its first
\* test ("session already cleaned"): the event is not a step of its own.
terminate(st, c) == [st EXCEPT !.ready[c] = "CLOSED"]

closeClient(st, c) == terminate([st EXCEPT !.sessions[c] = NoSession], c)

finalResponse(st, c, msg) == closeClient(send(st, c, msg), c)

\* the sender closed and its entry removed instead of answered
errorResponseSilent(st, c, error) == closeClient(st, c)

errorResponse(st, c, error) == finalResponse(st, c, ErrorMsg(error))

\* the invocation of a hook, with the fields it is given; sess is the session
\* object the handler resolved
HookCall(hook, s, address, reason, declinedBy) ==
  [hook |-> hook, sess |-> s, address |-> address, reason |-> reason,
   declinedBy |-> declinedBy]

responseFailed(st, c, command, message) ==
  LET s == st.sessions[c] IN
  IF s = NoSession THEN errorResponse(st, c, "Session not found")
  ELSE LET isBrowser == st.heap[s].client = c /\ st.heap[s].isBrowserSession
           st1 == [st EXCEPT !.hooks = Append(@,
                     HookCall("onDecline", s, st.heap[s].address,
                              DeclineReason(command),
                              IF isBrowser THEN "browser" ELSE "wallet"))]
       IN finalResponse(st1, c, Msg(command, message))

finalizeSession(st, c, isTimeout) ==
  LET s == st.sessions[c] IN
  IF s = NoSession THEN st
  ELSE IF isTimeout
       THEN responseFailed(st, st.heap[s].client, COMMAND_AUTH_TIMEOUT, "Authorization timeout")
       ELSE closeClient(st, st.heap[s].client)

\* findSession: the session of the first key whose field equals the value
\* (keys hold distinct objects with distinct ids, so at most one matches)
findSession(st, field, v) ==
  LET hit == {k \in Conn : st.sessions[k] # NoSession /\ st.heap[st.sessions[k]][field] = v}
  IN IF hit = {} THEN NoSession ELSE st.sessions[CHOOSE k \in hit : TRUE]

\* request()'s catch: the error text goes to the sender, whose session is finalized
requestCatch(st, c, error) == finalizeSession(errorResponse(st, c, error), c, FALSE)

\* ------------------------------------------------------------ bookkeeping
CountHooks(hs, hook, s) == Cardinality({i \in 1..Len(hs) : hs[i].hook = hook /\ hs[i].sess = s})

Ev(op, c, s, info, st) ==
  [op |-> op, conn |-> c, sess |-> s, info |-> info, code |-> 0, token |-> NoToken,
   sends |-> st.sends, hooks |-> st.hooks]

\* a session object is reachable while the table or a suspended handler holds it
Live(st, ts, s) ==
  \/ \E k \in Conn : st.sessions[k] = s
  \/ \E t \in ts : t.sess = s

\* Each connection is made by one peer program, which sends the commands of
\* its part: a page that starts a login sends auth_init, a page that comes
\* back sends reconnect, the Gate sends activate, the wallet sends auth and
\* declined.
CanHandle(c, r) == ready[c] = "OPEN" /\ role[c] = r

\* The effect on the engine's state and on the counters of a step that ends
\* in st with the handlers ts suspended. An object nothing holds any more is garbage: it is collected,
\* and what was recorded about it with it (no handler can reach it again).
CommitEngine(st, ts) ==
  /\ sessions' = st.sessions
  /\ heap' = [s \in Conn |-> IF Live(st, ts, s) THEN st.heap[s] ELSE NewSession(s)]
  /\ ready' = st.ready
  /\ tasks' = ts
  /\ role' = role
  /\ known' = [sid |-> {s \in st.known.sid : Live(st, ts, s)},
               csid |-> {s \in st.known.csid : Live(st, ts, s)}]
  /\ successCalls' = [s \in Conn |-> IF Live(st, ts, s)
                        THEN successCalls[s] + CountHooks(st.hooks, "onSuccess", s) ELSE 0]
  /\ declineCalls' = [s \in Conn |-> IF Live(st, ts, s)
                        THEN declineCalls[s] + CountHooks(st.hooks, "onDecline", s) ELSE 0]
  /\ replays' = [s \in Conn |-> IF Live(st, ts, s)
                   THEN replays[s] + (IF st.replayed = s THEN 1 ELSE 0) ELSE 0]

\* handleClose's `client.isAlive = false`, at the 'close' event of every
\* socket that has left OPEN
closedFlags(st, alive) == [c \in Conn |-> alive[c] /\ st.ready[c] # "CLOSED"]

\* a step of a handler: of the keep-alive flags it clears those of the
\* sockets it closes; the Gate client of the application is not its to change
Commit(st, ts) ==
  /\ CommitEngine(st, ts)
  /\ isAlive' = closedFlags(st, isAlive)
  /\ UNCHANGED <<rpc, aes>>

\* no buffer is being encrypted
NoBuffer == [pc |-> "none", buffer |-> <<>>, key |-> <<>>, data |-> <<>>, out |-> <<>>]

InitEngine(cast) ==
  /\ sessions = [c \in Conn |-> NoSession]
  /\ heap = [c \in Conn |-> NewSession(c)]
  /\ ready = [c \in Conn |-> "NEW"]
  /\ timersFired = 0
  /\ known = [sid |-> {}, csid |-> {}]
  /\ tasks = {}
  /\ role = [c \in Conn |-> IF c <= Len(cast) THEN cast[c] ELSE "none"]
  /\ successCalls = [s \in Conn |-> 0]
  /\ declineCalls = [s \in Conn |-> 0]
  /\ replays = [s \in Conn |-> 0]
  /\ ev = [op |-> "init", conn |-> 0, sess |-> NoSession, info |-> "-", code |-> 0,
           token |-> NoToken, sends |-> <<>>, hooks |-> <<>>]
  /\ rpc = NewTrustGateClient
  /\ isAlive = [c \in Conn |-> TRUE]

InitCast(cast) == InitEngine(cast) /\ aes = NoBuffer

Init == \E cast \in Casts : InitCast(cast)

\* --------------------------------------------------------------- actions
\* wsServer 'connection': newClient registers a fresh session under a fresh
\* clientId and arms the session timer. Connections are numbered in the
\* order they are accepted. The Gate and a returning page connect once a
\* sessionId has gone out, the wallet once a clientSessionId has.
newClient(st, c) ==
  [st EXCEPT !.sessions[c] = c, !.heap[c] = NewSession(c), !.ready[c] = "OPEN"]

Connect ==
  \E c \in Conn :
    /\ ready[c] = "NEW" /\ role[c] # "none"
    /\ \A d \in Conn : d < c => ready[d] # "NEW"
    /\ role[c] \in {"gate", "returning"} => known.sid # {}
    /\ role[c] = "wallet" => known.csid # {}
    /\ \E st \in {newClient(Here, c)} :
         /\ Commit(st, tasks)
         /\ ev' = Ev("connect", c, c, "-", st)
    /\ UNCHANGED timersFired

isNormal(code) == code = 1000 \/ code = 1001

\* the test with its negation lost
shouldPreserveCompleted(session) == session.isBrowserSession /\ session.authResult # NoToken

shouldPreserve(session) == session.isBrowserSession /\ session.authResult = NoToken

handleClose(st, c, code) ==
  LET s == st.sessions[c] IN
  IF s = NoSession THEN st
  ELSE IF shouldPreserve(st.heap[s]) THEN st
  ELSE LET st1 == IF ~isNormal(code)
                  THEN responseFailed(st, c, COMMAND_CONNECTION_FAILED, "Authorization declined")
                  ELSE st
       IN [st1 EXCEPT !.sessions[c] = NoSession]

\* ws 'close' event of a connection the peer closed (a close frame with a
\* code, or the transport dropping); the event is taken to follow the socket's
\* leaving OPEN with no other handler in between
PeerClose ==
  \E c \in Conn, code \in CloseCodes :
    /\ ready[c] = "OPEN"
    /\ \E st \in {handleClose([Here EXCEPT !.ready[c] = "CLOSED"], c, code)} :
         /\ Commit(st, tasks)
         /\ ev' = [Ev("close", c, sessions[c],
                        IF sessions[c] = NoSession THEN "cleaned"
                        ELSE IF st.sessions[c] = NoSession THEN "removed"
                        ELSE "preserved", st) EXCEPT !.code = code]
    /\ UNCHANGED timersFired

\* the callback finalizing without the timeout flag
sessionTimeoutUnflagged(st, c) ==
  IF st.sessions[c] # NoSession THEN finalizeSession(st, c, FALSE) ELSE st

\* the setTimeout of newClient, AUTHORIZATION_TIME_FRAME after the connection
sessionTimeout(st, c) ==
  IF st.sessions[c] # NoSession THEN finalizeSession(st, c, TRUE) ELSE st

\* the session newClient created with the timer of clientId c is in the table
InTable(s) == \E k \in Conn : sessions[k] = s

\* The timers run in the order they were armed. One that finds no session
\* under its clientId returns at its test; if the session created with it is
\* gone from the table as well, its firing changes and shows nothing, and it
\* is passed over by the next timer that fires.
PassedOver(c) ==
  \A d \in Conn : (timersFired < d /\ d < c) => (sessions[d] = NoSession /\ ~InTable(d))

TimerFire ==
  \E c \in Conn :
    /\ c > timersFired
    /\ ready[c] # "NEW"
    /\ sessions[c] # NoSession
    /\ PassedOver(c)
    /\ timersFired' = c
    /\ \E st \in {sessionTimeout(Here, c)} :
         /\ Commit(st, tasks)
         /\ ev' = Ev("timer", c, sessions[c], "timeout", st)

\* the timer of a clientId whose session a reconnect has moved to another
\* key: the callback finds no entry and returns
TimerMiss ==
  \E c \in Conn :
    /\ c > timersFired
    /\ ready[c] # "NEW"
    /\ sessions[c] = NoSession /\ InTable(c)
    /\ PassedOver(c)
    /\ timersFired' = c
    /\ \E st \in {sessionTimeout(Here, c)} :
         /\ Commit(st, tasks)
         /\ ev' = Ev("timer", c, NoSession, "none", st)

\* ------------------------------------------------- handlers of messages
\* ws 'message': request -> readMessage -> the command's handler. A handler
\* runs to its first await in the step that receives the message.

\* a suspended handler: the command, the connection it answers, its place,
\* the session object it holds, the address of its request; n tells the
\* handlers of one connection apart
Task(cmd, c, pc, s, address) ==
  [cmd |-> cmd, conn |-> c, pc |-> pc, sess |-> s, address |-> address,
   n |-> CHOOSE k \in 1..(MaxTasks + 1) :
           /\ \A t \in tasks : t.conn = c => t.n # k
           /\ \A j \in 1..(k - 1) : \E t \in tasks : t.conn = c /\ t.n = j]

\* The ids are uuids uuid() mints: a peer can name the sessionId of a session
\* only after the auth_init reply carried it, and its clientSessionId only
\* after 'ready' carried it.
KnownCsids == {heap[s].clientSessionId : s \in known.csid}

\* the key a session object is stored under (Object.keys(...).find)
KeyOf(st, s) ==
  LET ks == {k \in Conn : st.sessions[k] = s}
  IN IF ks = {} THEN 0 ELSE CHOOSE k \in ks : TRUE

ReconnectStatus(session) ==
  IF session.authResult # NoToken THEN "completed"
  ELSE IF session.declineResult THEN "declined"
  ELSE IF Truthy(session.address) THEN "activated"
  ELSE "waiting"

\* the rebinding with the old key left in the table
rebindKeepOld(st, c, s) ==
  [st EXCEPT !.heap[s].client = c, !.sessions[c] = s]

\* the rebinding of responseReconnect: the session takes the new socket, its
\* old key is deleted and it is registered under the new clientId
rebind(st, c, s) ==
  LET old == KeyOf(st, s)
      st1 == [st EXCEPT !.heap[s].client = c]
      st2 == IF old # 0 THEN [st1 EXCEPT !.sessions[old] = NoSession] ELSE st1
  IN [st2 EXCEPT !.sessions[c] = s]

\* the replay sending auth_result without its payload
replayStoredBare(st, c, s) ==
  LET st1 == IF st.heap[s].authResult # NoToken
             THEN send(st, c, Msg(COMMAND_AUTH_RESULT, "welcome"))
             ELSE st
      st2 == IF st1.heap[s].declineResult
             THEN send(st1, c, Msg(COMMAND_AUTH_DECLINED, "Authorization declined"))
             ELSE st1
  IN IF st.heap[s].authResult # NoToken \/ st.heap[s].declineResult
     THEN [st2 EXCEPT !.replayed = s]
     ELSE st2

\* the replay of the cached outcomes
replayStored(st, c, s) ==
  LET st1 == IF st.heap[s].authResult # NoToken
             THEN send(st, c, [Msg(COMMAND_AUTH_RESULT, "welcome") EXCEPT
                                 !.token = st.heap[s].authResult])
             ELSE st
      st2 == IF st1.heap[s].declineResult
             THEN send(st1, c, Msg(COMMAND_AUTH_DECLINED, "Authorization declined"))
             ELSE st1
  IN IF st.heap[s].authResult # NoToken \/ st.heap[s].declineResult
     THEN [st2 EXCEPT !.replayed = s]
     ELSE st2

\* a reconnect that names no session given the first browser session of the
\* table
responseReconnectAny(st, c, sid) ==
  LET named == IF sid = 0 THEN NoSession ELSE findSession(st, "sessionId", sid)
      s == IF named # NoSession THEN named ELSE findSession(st, "isBrowserSession", TRUE)
  IN IF s = NoSession THEN errorResponse(st, c, "session_not_found")
     ELSE LET st1 == replayStored(rebind(st, c, s), c, s)
          IN send(st1, c, [Msg(COMMAND_RECONNECT, "-") EXCEPT
                             !.status = ReconnectStatus(st1.heap[s])])

\* sid = 0: the message carries no sessionId
responseReconnect(st, c, sid) ==
  IF sid = 0 THEN errorResponse(st, c, "sessionId required")
  ELSE LET s == findSession(st, "sessionId", sid) IN
       IF s = NoSession THEN errorResponse(st, c, "session_not_found")
       ELSE LET st1 == replayStored(rebind(st, c, s), c, s)
            IN send(st1, c, [Msg(COMMAND_RECONNECT, "-") EXCEPT
                               !.status = ReconnectStatus(st1.heap[s])])

Reconnect ==
  \E c \in Conn, sid \in known.sid :
    /\ CanHandle(c, "returning")
    /\ replays[sid] < MaxReplays
    /\ \E st \in {responseReconnect(Here, c, sid)} :
         /\ Commit(st, tasks)
         /\ ev' = Ev("reconnect", c, findSession(Here, "sessionId", sid), "ok", st)
    /\ UNCHANGED timersFired

\* declined, the payload decrypting to csid
resolveDecline(st, payload, csid) ==
  IF payload = "csid" /\ csid # NoCsid THEN findSession(st, "clientSessionId", csid)
  ELSE NoSession

responseDeclined(st, c, payload, csid) ==
  LET bs == resolveDecline(st, payload, csid) IN
  IF bs # NoSession
  THEN LET b == st.heap[bs].client
           st1 == IF st.ready[b] = "OPEN"
                  THEN send(st, b, Msg(COMMAND_AUTH_DECLINED, "Authorization declined"))
                  ELSE [st EXCEPT !.heap[bs].declineResult = TRUE]
           st2 == [st1 EXCEPT !.hooks = Append(@,
                     HookCall("onDecline", bs, st.heap[bs].address, "user_declined", "wallet"))]
       IN finalResponse(st2, c, Msg(COMMAND_AUTH_DECLINED, "Authorization declined"))
  ELSE responseFailed(st, c, COMMAND_AUTH_DECLINED, "Authorization declined")

Declined ==
  \E c \in Conn, csid \in KnownCsids :
    /\ CanHandle(c, "wallet")
    /\ \E st \in {responseDeclined(Here, c, "csid", csid)} :
         /\ Commit(st, tasks)
         /\ ev' = Ev("declined", c, resolveDecline(Here, "csid", csid), "csid", st)
    /\ UNCHANGED timersFired

\* ------------------------------------------------ handlers that suspend
\* auth_init, up to the await of the Gate: the handler holds the session of its
\* connection; with no entry, reading session.sessionId throws
responseInit(st, c) ==
  LET s == st.sessions[c] IN
  IF s = NoSession THEN requestCatch(st, c, "TypeError")
  ELSE [st EXCEPT !.spawn = {Task("auth_init", c, "gate", s, "-")}]

AuthInit ==
  \E c \in Conn :
    /\ CanHandle(c, "browser")
    /\ sessions[c] # NoSession /\ ~heap[sessions[c]].isBrowserSession
    /\ \A t \in tasks : t.conn # c
    /\ \E st \in {responseInit(Here, c)} :
         /\ Cardinality(tasks \cup st.spawn) <= MaxTasks
         /\ Commit(st, tasks \cup st.spawn)
         /\ ev' = Ev("auth_init", c, sessions[c], IF sessions[c] = NoSession THEN "throw" ELSE "await", st)
    /\ UNCHANGED timersFired

\* what open() and createTask() end with: the task, or the error whose text
\* responseInit classifies
GateOutcomes == {"ok", "connect_timeout", "connect_failed", "request_timeout", "gate_error"}

\* the cause passed on as the message
userMessageRaw(outcome) == outcome

\* the user-facing message, by substring match on the cause
userMessage(outcome) ==
  IF outcome \in {"connect_timeout", "request_timeout"}
  THEN "Authorization service timeout. Please try again."
  ELSE IF outcome = "connect_failed"
  THEN "Authorization service unavailable. Please try again later."
  ELSE "Authorization service error. Please contact support."

\* auth_init after the await: the held session becomes a browser session and
\* request() sends the reply; a failure is rethrown to request()'s catch
responseInitResume(st, c, s, outcome) ==
  IF outcome = "ok"
  THEN LET st1 == [st EXCEPT !.heap[s].isBrowserSession = TRUE]
           st2 == send(st1, c, [Msg(COMMAND_AUTH_INIT, "linkWeb") EXCEPT !.sid = st1.heap[s].sessionId])
       IN IF st.ready[c] = "OPEN" THEN [st2 EXCEPT !.known.sid = @ \cup {s}] ELSE st2
  ELSE requestCatch(st, c, userMessage(outcome))

AuthInitResume ==
  \E t \in tasks, outcome \in GateOutcomes :
    /\ t.cmd = "auth_init"
    /\ \E st \in {responseInitResume(Here, t.conn, t.sess, outcome)} :
         /\ Commit(st, tasks \ {t})
         /\ ev' = Ev("auth_init_done", t.conn, t.sess, outcome, st)
    /\ UNCHANGED timersFired

\* uuid() for the clientSessionId of session object s
mint(st, s) == <<s, st.heap[s].clientSessionId[2] + 1>>

alreadyActivated(session) == Truthy(session.address)

\* activate, up to the await of onHello
responseActivate(st, c, decryptOk, sid, address) ==
  IF ~decryptOk THEN requestCatch(st, c, "decrypt_error")
  ELSE LET s == findSession(st, "sessionId", sid) IN
       IF s = NoSession THEN errorResponse(st, c, "Session not found")
       ELSE IF alreadyActivated(st.heap[s])
       THEN errorResponse(st, c, "Session already activated")
       ELSE [st EXCEPT !.heap[s].address = address,
                       !.heap[s].clientSessionId = mint(st, s),
                       !.known.csid = @ \ {s},
                       !.hooks = Append(@, HookCall("onHello", s, address, "-", "-")),
                       !.spawn = {Task("activate", c, "onHello", s, address)}]

Activate ==
  \E c \in Conn, sid \in known.sid, address \in Addr :
    /\ CanHandle(c, "gate")
    /\ \E st \in {responseActivate(Here, c, TRUE, sid, address)} :
         /\ Cardinality(tasks \cup st.spawn) <= MaxTasks
         /\ Commit(st, tasks \cup st.spawn)
         /\ ev' = Ev("activate", c, findSession(Here, "sessionId", sid),
                     IF st.spawn = {} THEN "already" ELSE "await", st)
    /\ UNCHANGED timersFired

\* activate after the await, the browser not notified
responseActivateResumeSilent(st, c, s, outcome) ==
  IF outcome = "throw" THEN requestCatch(st, c, "hook_error")
  ELSE LET st1 == finalResponse(st, c, [Msg(COMMAND_READY, "-") EXCEPT
                                          !.csid = st.heap[s].clientSessionId,
                                          !.status = outcome])
       IN IF st.ready[c] = "OPEN" THEN [st1 EXCEPT !.known.csid = @ \cup {s}] ELSE st1

\* activate after the await: 'ready' to the orchestrator, 'activated' to the
\* browser if its socket is open; a throwing hook goes to request()'s catch
responseActivateResume(st, c, s, outcome) ==
  IF outcome = "throw" THEN requestCatch(st, c, "hook_error")
  ELSE LET st1 == finalResponse(st, c, [Msg(COMMAND_READY, "-") EXCEPT
                                          !.csid = st.heap[s].clientSessionId,
                                          !.status = outcome])
           st2 == IF st.ready[c] = "OPEN" THEN [st1 EXCEPT !.known.csid = @ \cup {s}] ELSE st1
           b == st2.heap[s].client
       IN IF st2.ready[b] = "OPEN" THEN send(st2, b, Msg(COMMAND_ACTIVATED, "-")) ELSE st2

ActivateResume ==
  \E t \in tasks, outcome \in {"registered", "unregistered", "throw"} :
    /\ t.cmd = "activate"
    /\ \E st \in {responseActivateResume(Here, t.conn, t.sess, outcome)} :
         /\ Commit(st, tasks \ {t})
         /\ ev' = Ev("activate_done", t.conn, t.sess, outcome, st)
    /\ UNCHANGED timersFired

\* ------------------------------------------------------------------ auth
\* the catch of responseAuth: the error text goes to the browser of the
\* resolved session, if its socket is open, and to the wallet
authCatch(st, c, s, error) ==
  LET st1 == IF s # NoSession /\ st.ready[st.heap[s].client] = "OPEN"
             THEN errorResponse(st, st.heap[s].client, error)
             ELSE st
  IN errorResponse(st1, c, error)

\* auth, up to the await of getTokenFromIPFS
responseAuth(st, c, complete, decryptOk, csid, address) ==
  IF ~complete THEN errorResponse(st, c, "Missing required parameters")
  ELSE IF ~decryptOk THEN authCatch(st, c, NoSession, "decrypt_error")
  ELSE IF csid = NoCsid THEN authCatch(st, c, NoSession, "Invalid clientSessionId")
  ELSE LET s == findSession(st, "clientSessionId", csid) IN
       IF s = NoSession THEN errorResponse(st, c, "Session not found")
       ELSE [st EXCEPT !.spawn = {Task("auth", c, "ipfs", s, address)}]

Auth ==
  \E c \in Conn, csid \in KnownCsids, address \in Addr \ {""} :
    /\ CanHandle(c, "wallet")
    /\ \E st \in {responseAuth(Here, c, TRUE, TRUE, csid, address)} :
         /\ Cardinality(tasks \cup st.spawn) <= MaxTasks
         /\ Commit(st, tasks \cup st.spawn)
         /\ ev' = Ev("auth", c, findSession(Here, "clientSessionId", csid), "await", st)
    /\ UNCHANGED timersFired

\* What the wallet proves with: the identity bundle fetched for its address
\* and the signature of its request, each named by its first defect.
Proofs ==
  {"fetch_failed", "no_encrypt_key", "sign_key_size", "encrypt_key_size",
   "signature_format", "signature_invalid", "valid"}

\* getTokenFromIPFS, initUserCrypto and checkSignature in turn: the text of
\* the error the first defect throws, "" when the signature verifies
verifyError(proof) ==
  IF proof = "fetch_failed" THEN "IPFS fetch failed"
  ELSE IF proof = "no_encrypt_key" THEN "Invalid SNFT token structure: missing public keys"
  ELSE IF proof = "sign_key_size" THEN "Invalid ML-DSA-87 public key size"
  ELSE IF proof = "signature_format" THEN "Invalid signature format"
  ELSE IF proof = "signature_invalid" THEN "Invalid signature"
  ELSE ""

\* the failures checkSignature itself throws
SignatureFailures == {"signature_format", "signature_invalid"}

\* auth between the await of the bundle and the await of onSuccess
responseAuthVerify(st, c, s, address, proof) ==
  IF verifyError(proof) # "" THEN authCatch(st, c, s, verifyError(proof))
  ELSE [st EXCEPT !.hooks = Append(@, HookCall("onSuccess", s, address, "-", "-")),
                  !.spawn = {Task("auth", c, "onSuccess", s, address)}]

AuthVerify ==
  \E t \in tasks, proof \in Proofs :
    /\ t.cmd = "auth" /\ t.pc = "ipfs"
    /\ \E st \in {responseAuthVerify(Here, t.conn, t.sess, t.address, proof)} :
         /\ Commit(st, (tasks \ {t}) \cup {[u EXCEPT !.n = t.n] : u \in st.spawn})
         /\ ev' = Ev("auth_verify", t.conn, t.sess, proof, st)
    /\ UNCHANGED timersFired

\* what onSuccess resolves to: a token, an error, neither; or it throws
NoError == ""
Results ==
  {[token |-> k, error |-> NoError, throws |-> FALSE] : k \in Tokens \cup {NoToken}}
  \cup {[token |-> NoToken, error |-> "denied", throws |-> FALSE],
        [token |-> NoToken, error |-> NoError, throws |-> TRUE]}

\* the result kept on every session of the wallet's address, not on the one
\* the request resolved
responseAuthFinishByAddress(st, c, s, result) ==
  LET st1 == finalResponse(st, c, Msg(COMMAND_AUTH, "welcome"))
      st2 == [st1 EXCEPT !.heap = [x \in Conn |->
                 IF st1.heap[x].address = st1.heap[s].address
                 THEN [st1.heap[x] EXCEPT !.authResult = result.token]
                 ELSE st1.heap[x]]]
      b == st2.heap[s].client
  IN IF st2.ready[b] = "OPEN"
     THEN finalResponse(st2, b, [Msg(COMMAND_AUTH_RESULT, "welcome") EXCEPT !.token = result.token])
     ELSE st2

\* auth after onSuccess: the answer to the wallet, the result kept for a
\* reconnect, the result to the browser if its socket is open
responseAuthFinish(st, c, s, result) ==
  IF result.throws THEN authCatch(st, c, s, "hook_error")
  ELSE LET failed == result.error # NoError
           text == IF failed THEN result.error ELSE "welcome"
           st1 == finalResponse(st, c, Msg(IF failed THEN STATUS_FAILED ELSE COMMAND_AUTH, text))
           st2 == IF result.token # NoToken
                  THEN [st1 EXCEPT !.heap[s].authResult = result.token]
                  ELSE st1
           b == st2.heap[s].client
       IN IF st2.ready[b] = "OPEN"
          THEN finalResponse(st2, b,
                 [Msg(IF failed THEN STATUS_FAILED ELSE COMMAND_AUTH_RESULT, text)
                    EXCEPT !.token = result.token])
          ELSE st2

AuthFinish ==
  \E t \in tasks, result \in Results :
    /\ t.cmd = "auth" /\ t.pc = "onSuccess"
    /\ \E st \in {responseAuthFinish(Here, t.conn, t.sess, result)} :
         /\ Commit(st, tasks \ {t})
         /\ ev' = [Ev("auth_done", t.conn, t.sess,
                        IF result.throws THEN "throw"
                        ELSE IF result.error # NoError THEN "error" ELSE "welcome", st)
                     EXCEPT !.token = result.token]
    /\ UNCHANGED timersFired

Next ==
  \/ Connect \/ PeerClose \/ TimerFire \/ TimerMiss
  \/ Reconnect \/ Declined
  \/ AuthInit \/ AuthInitResume \/ Activate \/ ActivateResume
  \/ Auth \/ AuthVerify \/ AuthFinish

Spec == Init /\ [][Next]_vars

\* ------------------------------------- messages outside the peers' parts
\* A peer may send any bytes on its connection, and a hook may fail. The
\* steps below are what the engine makes of that; SpecInputs is Spec with
\* them.

\* a clientSessionId and a sessionId no session holds
StrayCsid == <<NoSession, 1>>
StraySid == NConn + 1

\* what a 'declined' that resolves to no session carries
Payloads == {"none", "undecryptable", "stray"}

\* 'declined' whose payload is missing, does not decrypt, or decrypts to a
\* clientSessionId no session holds, from any open connection
DeclinedUnresolved ==
  \E c \in Conn, payload \in Payloads :
    /\ ready[c] = "OPEN"
    /\ \E st \in {responseDeclined(Here, c, IF payload = "stray" THEN "csid" ELSE payload,
                                   IF payload = "stray" THEN StrayCsid ELSE NoCsid)} :
         /\ Commit(st, tasks)
         /\ ev' = Ev("declined", c, NoSession, payload, st)
    /\ UNCHANGED timersFired

\* readMessage: bytes that do not decode, and a command the switch does not know
Garbage == {"undecodable", "unknown"}

readMessageError(kind) ==
  IF kind = "undecodable" THEN "Invalid message format" ELSE "Unknown command: bogus"

BadMessage ==
  \E c \in Conn, kind \in Garbage :
    /\ ready[c] = "OPEN"
    /\ \E st \in {errorResponse(Here, c, readMessageError(kind))} :
         /\ Commit(st, tasks)
         /\ ev' = Ev("bad", c, sessions[c], kind, st)
    /\ UNCHANGED timersFired

\* reconnect, from a page, without a sessionId or with one no session holds
ReconnectRejected ==
  \E c \in Conn, sid \in {0, StraySid} :
    /\ ready[c] = "OPEN" /\ role[c] \in {"browser", "returning"}
    /\ \E st \in {responseReconnect(Here, c, sid)} :
         /\ Commit(st, tasks)
         /\ ev' = Ev("reconnect", c, NoSession, IF sid = 0 THEN "missing" ELSE "stray", st)
    /\ UNCHANGED timersFired

\* the rejection of onDecline's promise left without a handler: the process ends
catchDeclineErrorUnhandled(st) ==
  [st EXCEPT !.sessions = [k \in Conn |-> NoSession],
             !.ready = [k \in Conn |-> IF st.ready[k] = "OPEN" THEN "CLOSED" ELSE st.ready[k]]]

\* the handler given to .catch on onDecline's promise: it logs
catchDeclineError(st) == st

\* the wallet's decline, onDecline's promise rejecting
DeclinedRejects ==
  \E c \in Conn, csid \in KnownCsids :
    /\ CanHandle(c, "wallet")
    /\ \E st \in {catchDeclineError(responseDeclined(Here, c, "csid", csid))} :
         /\ Commit(st, tasks)
         /\ ev' = Ev("declined", c, resolveDecline(Here, "csid", csid), "rejects", st)
    /\ UNCHANGED timersFired

\* the session timer, onDecline's promise rejecting
TimerFireRejects ==
  \E c \in Conn :
    /\ c > timersFired
    /\ ready[c] # "NEW"
    /\ sessions[c] # NoSession
    /\ PassedOver(c)
    /\ timersFired' = c
    /\ \E st \in {catchDeclineError(sessionTimeout(Here, c))} :
         /\ Commit(st, tasks)
         /\ ev' = Ev("timer", c, sessions[c], "rejects", st)

NextInputs ==
  \/ Next
  \/ DeclinedUnresolved \/ BadMessage \/ ReconnectRejected
  \/ DeclinedRejects \/ TimerFireRejects

SpecInputs == Init /\ [][NextInputs]_vars

\* ------------------------------------------------------ two logins at once
\* two pages, each with its orchestrator connection and its wallet
Pair == <<"browser", "browser", "gate", "gate", "wallet", "wallet">>

NextPair ==
  \/ Connect
  \/ AuthInit \/ AuthInitResume \/ Activate \/ ActivateResume
  \/ Auth \/ AuthVerify \/ AuthFinish

SpecPair == InitCast(Pair) /\ [][NextPair]_vars

\* ------------------------------------------------- the Peer RPC client
\* TrustGateClient: one socket to the Gate, requests matched to replies by
\* _requestId. The Gate sends what it likes when it likes; timers and the
\* close of the socket come in any order.
engineVars == <<sessions, heap, ready, timersFired, known, tasks, role,
                successCalls, declineCalls, replays, isAlive>>

RpcEv(op, id, info) ==
  [op |-> op, conn |-> id, sess |-> NoSession, info |-> info, code |-> 0,
   token |-> NoToken, sends |-> <<>>, hooks |-> <<>>]

\* the two callbacks of a promise: the first call settles it, later calls
\* are without effect
resolvePromise(r, id) ==
  [r EXCEPT !.resolves[id] = @ + 1,
            !.promise[id] = IF @ = "pending" THEN "resolved" ELSE @]
rejectPromise(r, id, why) ==
  [r EXCEPT !.rejects[id] = @ + 1,
            !.promise[id] = IF @ = "pending" THEN why ELSE @]

\* send() on an open socket: ++this.requestId, the 30 s timer, the table entry
clientSend(r) ==
  LET id == r.requestId + 1
  IN [r EXCEPT !.requestId = id, !.pending = @ \cup {id}, !.timers = @ \cup {id},
               !.promise[id] = "pending"]

\* the reply given to the oldest pending request, whatever id it carries
handleMessageOldest(r, id, kind) ==
  IF id = 0 \/ id \notin r.pending THEN r
  ELSE LET old == CHOOSE k \in r.pending : \A j \in r.pending : k <= j
           r1 == [r EXCEPT !.timers = @ \ {old}, !.pending = @ \ {old}]
       IN IF kind = "error" THEN rejectPromise(r1, old, "rejected_reply")
          ELSE resolvePromise(r1, old)

\* handleMessage: id 0 stands for a message without _requestId
handleMessage(r, id, kind) ==
  IF id = 0 THEN r
  ELSE IF id \notin r.pending THEN r
  ELSE LET r1 == [r EXCEPT !.timers = @ \ {id}, !.pending = @ \ {id}]
       IN IF kind = "error" THEN rejectPromise(r1, id, "rejected_reply")
          ELSE resolvePromise(r1, id)

\* the timer rejecting and leaving the entry in the table
onRequestTimeoutKept(r, id) ==
  rejectPromise([r EXCEPT !.timers = @ \ {id}], id, "rejected_timeout")

\* the callback of a request's 30 s timer
onRequestTimeout(r, id) ==
  rejectPromise([r EXCEPT !.timers = @ \ {id}, !.pending = @ \ {id}], id, "rejected_timeout")

\* the close handler rejecting the first entry only
onCloseFirst(r) ==
  LET first == {k \in r.pending : \A j \in r.pending : k <= j}
  IN [r EXCEPT !.ws = "CLOSED", !.pending = @ \ first,
               !.rejects = [id \in RequestIds |-> IF id \in first THEN @[id] + 1 ELSE @[id]],
               !.promise = [id \in RequestIds |->
                              IF id \in first /\ @[id] = "pending" THEN "rejected_closed" ELSE @[id]]]

\* the socket's 'close' handler: every entry rejected and deleted; the timers
\* of the entries are not cleared
onClose(r) ==
  [r EXCEPT !.ws = "CLOSED", !.pending = {},
            !.rejects = [id \in RequestIds |-> IF id \in r.pending THEN @[id] + 1 ELSE @[id]],
            !.promise = [id \in RequestIds |->
                           IF id \in r.pending /\ @[id] = "pending" THEN "rejected_closed" ELSE @[id]]]

RpcStep(r, op, id, info) ==
  /\ rpc' = r
  /\ ev' = RpcEv(op, id, info)
  /\ UNCHANGED <<engineVars, aes>>

\* open(): the socket is created, then opens or fails
RpcConnect == rpc.ws = "NONE" /\ RpcStep([rpc EXCEPT !.ws = "CONNECTING"], "rpc_connect", 0, "-")
RpcOpened == rpc.ws = "CONNECTING" /\ RpcStep([rpc EXCEPT !.ws = "OPEN"], "rpc_open", 0, "-")

RpcSend ==
  /\ rpc.ws = "OPEN" /\ rpc.requestId < MaxRequests
  /\ RpcStep(clientSend(rpc), "rpc_send", rpc.requestId + 1, "-")

\* send() without an open socket: Promise.reject, nothing registered
RpcSendNotOpen == rpc.ws # "OPEN" /\ RpcStep(rpc, "rpc_send", 0, "not_open")

\* a message of the Gate: a reply or an error reply with any id or none, or
\* bytes that do not decode (logged)
RpcMessage ==
  \E id \in 0..(MaxRequests + 1), kind \in {"ok", "error", "undecodable"} :
    /\ rpc.ws \in {"OPEN", "CLOSING"}
    /\ kind = "undecodable" => id = 0
    /\ RpcStep(IF kind = "undecodable" THEN rpc ELSE handleMessage(rpc, id, kind),
               "rpc_message", id, kind)

RpcTimeout ==
  \E id \in rpc.timers : RpcStep(onRequestTimeout(rpc, id), "rpc_timeout", id, "-")

\* close(): ws.close() and this.ws = null; the 'close' event follows
RpcClose ==
  /\ rpc.ws \in {"CONNECTING", "OPEN"}
  /\ RpcStep([rpc EXCEPT !.ws = "CLOSING"], "rpc_close", 0, "-")

RpcCloseEvent ==
  /\ rpc.ws \in {"CONNECTING", "OPEN", "CLOSING"}
  /\ RpcStep(onClose(rpc), "rpc_close_event", 0, "-")

NextRpc ==
  \/ RpcConnect \/ RpcOpened \/ RpcSend \/ RpcSendNotOpen
  \/ RpcMessage \/ RpcTimeout \/ RpcClose \/ RpcCloseEvent

SpecRpc == InitCast(<<>>) /\ [][NextRpc]_vars

\* ------------------------------------------------------------------ claims
\* the messages of a command, and the errors of a text, a step sent to c
SentTo(e, c, cmd) == {i \in 1..Len(e.sends) : e.sends[i].to = c /\ e.sends[i].msg.cmd = cmd}
ErrorsTo(e, c, text) == {i \in 1..Len(e.sends) : e.sends[i].to = c /\ e.sends[i].msg = ErrorMsg(text)}
HooksOf(e, hook) == {i \in 1..Len(e.hooks) : e.hooks[i].hook = hook}

\* the connection's entry is a session whose auth_init succeeded
BrowserRole(c) == sessions[c] # NoSession /\ heap[sessions[c]].isBrowserSession
\* neither an auth result nor a decline is stored
NoTerminal(session) == session.authResult = NoToken /\ ~session.declineResult

\* C1: once an activate has set the address of a session, every later activate
\* naming that session is answered with the error 'Session already activated'
\* and leaves the session's address and clientSessionId as they were.
C1_ActivateOnce ==
  [][(ev'.op = "activate" /\ ev'.sess # NoSession /\ heap[ev'.sess].address # NullAddr)
       => /\ ErrorsTo(ev', ev'.conn, "Session already activated") # {}
          /\ heap'[ev'.sess].address = heap[ev'.sess].address
          /\ heap'[ev'.sess].clientSessionId = heap[ev'.sess].clientSessionId]_vars

\* C2: while the handler of one activate for a session is suspended at the
\* identity-check hook, another activate for the same session is rejected with
\* 'Session already activated' and does not go on to 'ready': at most one of
\* two concurrent activates succeeds.
C2_OneActivateSucceeds ==
  [][(ev'.op = "activate" /\ \E t \in tasks : t.cmd = "activate" /\ t.sess = ev'.sess)
       => /\ ErrorsTo(ev', ev'.conn, "Session already activated") # {}
          /\ tasks' = tasks]_vars

\* C3: onSuccess is invoked at most once per session.
C3_SuccessOnce == \A s \in Conn : successCalls[s] <= 1

\* C4: onDecline is invoked at most once per session.
C4_DeclineOnce == \A s \in Conn : declineCalls[s] <= 1

\* C5: when checkSignature fails during auth, the wallet (if its socket is
\* open) is sent the error 'Invalid signature', onSuccess is not invoked and
\* no authResult is stored on the session.
C5_InvalidSignature ==
  [][(ev'.op = "auth_verify" /\ ev'.info \in SignatureFailures)
       => /\ ready[ev'.conn] = "OPEN" => ErrorsTo(ev', ev'.conn, "Invalid signature") # {}
          /\ HooksOf(ev', "onSuccess") = {}
          /\ heap'[ev'.sess].authResult \in {heap[ev'.sess].authResult, NoToken}]_vars

\* C6: a reconnect to a session that holds an authResult sends the
\* reconnecting connection exactly one auth_result, carrying the stored token;
\* no reconnect invokes onSuccess; and the token a session holds is the one
\* onSuccess returned to the auth handler that stored it.
C6_ReplayStoredResult ==
  [][/\ (ev'.op = "reconnect" /\ ev'.sess # NoSession /\ heap[ev'.sess].authResult # NoToken)
          => /\ Cardinality(SentTo(ev', ev'.conn, COMMAND_AUTH_RESULT)) = 1
             /\ \A i \in SentTo(ev', ev'.conn, COMMAND_AUTH_RESULT) :
                  ev'.sends[i].msg.token = heap[ev'.sess].authResult
     /\ ev'.op = "reconnect" => HooksOf(ev', "onSuccess") = {}
     /\ \A s \in Conn : heap'[s].authResult \notin {heap[s].authResult, NoToken}
          => ev'.op = "auth_done" /\ ev'.sess = s /\ heap'[s].authResult = ev'.token]_vars

\* a reconnect has delivered a stored token
C6_Witness ==
  /\ ev.op = "reconnect"
  /\ \E i \in SentTo(ev, ev.conn, COMMAND_AUTH_RESULT) : ev.sends[i].msg.token \in Tokens

\* C7: a cached terminal outcome is delivered by at most one reconnect.
C7_ReplayOnce == \A s \in Conn : replays[s] <= 1

C9_NormalCloseRemoves ==
  [][(/\ ev'.op = "close" /\ isNormal(ev'.code) /\ sessions[ev'.conn] # NoSession
      /\ (~BrowserRole(ev'.conn) \/ ~NoTerminal(heap[sessions[ev'.conn]])))
       => \A k \in Conn : sessions'[k] # sessions[ev'.conn]]_vars

C11_DeadlineAbsolute ==
  [][(ev'.op = "timer" /\ InTable(ev'.conn))
       => \A k \in Conn : sessions'[k] # ev'.conn]_vars

\* C12: when the handler of a valid auth, resumed after onSuccess resolved
\* without an error, produces the result of a session of the table, the
\* result goes to the connection the session is bound to at that moment, and
\* to no other connection than it and the wallet, if that connection's
\* socket is open; otherwise it is stored on the session, which stays in the
\* table, for a reconnect to replay.
C12_AuthResultReaches ==
  [][(ev'.op = "auth_done" /\ ev'.info = "welcome" /\ InTable(ev'.sess))
       => LET s == ev'.sess
              b == heap[s].client
          IN /\ \A i \in 1..Len(ev'.sends) : ev'.sends[i].to \in {ev'.conn, b}
             /\ IF ready[b] = "OPEN"
                THEN \E i \in SentTo(ev', b, COMMAND_AUTH_RESULT) :
                       ev'.sends[i].msg.token = ev'.token
                ELSE /\ ev'.token # NoToken
                     /\ heap'[s].authResult = ev'.token
                     /\ \E k \in Conn : sessions'[k] = s]_vars

\* C13: a 'declined' command whose payload is missing, does not decrypt or
\* resolves to no session is answered on the sender's connection with a
\* 'declined' acknowledgement and with no error.
C13_DeclinedAcknowledged ==
  [][(ev'.op = "declined" /\ ev'.info \in Payloads)
       => /\ SentTo(ev', ev'.conn, COMMAND_AUTH_DECLINED) # {}
          /\ SentTo(ev', ev'.conn, COMMAND_ERROR) = {}]_vars

\* C14: a step in which onDecline's promise rejects ends as the step with
\* the hook succeeding does. For a wallet's decline: the sender is sent the
\* 'declined' acknowledgement and no error, and only the sender's connection
\* and entry are closed and removed. For a session timer: the 'timeout'
\* notice goes to the bound connection if its socket is open, and only that
\* connection and entry are closed and removed.
C14_DeclineHookFailureCaught ==
  [][/\ (ev'.op = "declined" /\ ev'.info = "rejects")
          => /\ SentTo(ev', ev'.conn, COMMAND_AUTH_DECLINED) # {}
             /\ SentTo(ev', ev'.conn, COMMAND_ERROR) = {}
             /\ HooksOf(ev', "onDecline") # {}
             /\ \A k \in Conn \ {ev'.conn} :
                  ready'[k] = ready[k] /\ sessions'[k] = sessions[k]
     /\ (ev'.op = "timer" /\ ev'.info = "rejects")
          => LET b == heap[sessions[ev'.conn]].client
             IN /\ HooksOf(ev', "onDecline") # {}
                /\ ev'.sends = IF ready[b] = "OPEN"
                               THEN <<[to |-> b, msg |-> Msg(COMMAND_AUTH_TIMEOUT, "Authorization timeout")]>>
                               ELSE <<>>
                /\ ready'[b] = "CLOSED" /\ sessions'[b] = NoSession
                /\ \A k \in Conn \ {b} :
                     ready'[k] = ready[k] /\ sessions'[k] = sessions[k]]_vars

\* onDecline's promise has rejected in a wallet's decline while another
\* connection was open, which is open still
C14_Witness ==
  /\ ev.op = "declined" /\ ev.info = "rejects" /\ ev.sess # NoSession
  /\ Len(ev.hooks) = 1
  /\ \E k \in Conn : k # ev.conn /\ ready[k] = "OPEN" /\ sessions[k] # NoSession

\* C15: a wallet's decline that resolves to a session whose bound connection
\* is not open stores the decline on the session; and a reconnect to a
\* session of the table that holds a stored decline sends the reconnecting
\* connection a 'declined' message and reports the status 'declined'.
C15_DeclineReplayed ==
  [][/\ (ev'.op = "declined" /\ ev'.sess # NoSession /\ ready[heap[ev'.sess].client] # "OPEN")
          => heap'[ev'.sess].declineResult
     /\ (ev'.op = "reconnect" /\ ev'.sess # NoSession /\ heap[ev'.sess].declineResult)
          => /\ SentTo(ev', ev'.conn, COMMAND_AUTH_DECLINED) # {}
             /\ \E i \in SentTo(ev', ev'.conn, COMMAND_RECONNECT) :
                  ev'.sends[i].msg.status = "declined"]_vars

C17_HappyPath ==
  [][/\ (ev'.op = "auth_init_done" /\ ev'.info = "ok" /\ ready[ev'.conn] = "OPEN")
          => ev'.sends = <<[to |-> ev'.conn,
                            msg |-> [Msg(COMMAND_AUTH_INIT, "linkWeb") EXCEPT
                                       !.sid = heap[ev'.sess].sessionId]]>>
     /\ (/\ ev'.op = "activate_done" /\ ev'.info # "throw" /\ ready[ev'.conn] = "OPEN"
         /\ ready[heap[ev'.sess].client] = "OPEN")
          => LET s == ev'.sess
                 b == heap[s].client
             IN /\ ev'.sends = <<[to |-> ev'.conn,
                                  msg |-> [Msg(COMMAND_READY, "-") EXCEPT
                                             !.csid = heap[s].clientSessionId,
                                             !.status = ev'.info]],
                                 [to |-> b, msg |-> Msg(COMMAND_ACTIVATED, "-")]>>
                /\ heap[s].clientSessionId # NoCsid
                /\ heap'[s].clientSessionId = heap[s].clientSessionId
                /\ \A k \in Conn : sessions'[k] # NoSession =>
                     (heap'[sessions'[k]].clientSessionId = heap[s].clientSessionId
                        <=> sessions'[k] = s)
                /\ b = s => s \in known.sid
     /\ (/\ ev'.op = "auth_done" /\ ev'.info = "welcome" /\ ready[ev'.conn] = "OPEN"
         /\ ready[heap[ev'.sess].client] = "OPEN")
          => ev'.sends = <<[to |-> ev'.conn, msg |-> Msg(COMMAND_AUTH, "welcome")],
                           [to |-> heap[ev'.sess].client,
                            msg |-> [Msg(COMMAND_AUTH_RESULT, "welcome") EXCEPT
                                       !.token = ev'.token]]>>]_vars

\* the wallet has been welcomed and the page that started the login, still on
\* its first connection, has been pushed the token
C17_Witness ==
  /\ ev.op = "auth_done" /\ ev.info = "welcome" /\ ev.sess = 1 /\ ev.token \in Tokens
  /\ Len(ev.sends) = 2
  /\ ev.sends[1].msg.cmd = COMMAND_AUTH
  /\ ev.sends[2].to = 1 /\ ev.sends[2].msg.cmd = COMMAND_AUTH_RESULT
  /\ ev.sends[2].msg.token = ev.token

\* C18: a message that does not decode is answered with the error 'Invalid
\* message format', one with an unknown command with 'Unknown command: ...',
\* and with nothing else; the sender's connection is closed and its entry
\* removed; every other entry, session and connection stays as it was.
C18_BadMessageRejected ==
  [][ev'.op = "bad"
       => /\ ev'.sends = <<[to |-> ev'.conn,
                            msg |-> ErrorMsg(IF ev'.info = "undecodable"
                                             THEN "Invalid message format"
                                             ELSE "Unknown command: bogus")]>>
          /\ ev'.hooks = <<>>
          /\ ready'[ev'.conn] = "CLOSED" /\ sessions'[ev'.conn] = NoSession
          /\ \A k \in Conn \ {ev'.conn} :
               /\ ready'[k] = ready[k] /\ sessions'[k] = sessions[k]
               /\ sessions[k] # NoSession => heap'[sessions[k]] = heap[sessions[k]]
          /\ tasks' = tasks]_vars

\* an unknown command has come from a page whose session was activated, while
\* another connection was open
C18_Witness ==
  /\ ev.op = "bad" /\ ev.info = "unknown" /\ ev.sess # NoSession
  /\ Len(ev.sends) = 1
  /\ \E k \in Conn : k # ev.conn /\ ready[k] = "OPEN" /\ sessions[k] # NoSession

\* C19: the status a successful reconnect reports is 'completed' if the
\* session holds an auth result, otherwise 'declined' if it holds a decline,
\* otherwise 'activated' if an activate has set its address, otherwise
\* 'waiting'.
C19_ReconnectStatus ==
  [][(ev'.op = "reconnect" /\ ev'.sess # NoSession)
       => LET session == heap[ev'.sess]
              status == IF session.authResult # NoToken THEN "completed"
                        ELSE IF session.declineResult THEN "declined"
                        ELSE IF session.address # NullAddr THEN "activated"
                        ELSE "waiting"
          IN /\ SentTo(ev', ev'.conn, COMMAND_RECONNECT) # {}
             /\ \A i \in SentTo(ev', ev'.conn, COMMAND_RECONNECT) :
                  ev'.sends[i].msg.status = status]_vars

\* C20: a reconnect without a sessionId is answered with the error
\* 'sessionId required', one whose sessionId no session of the table holds
\* with 'session_not_found', and with nothing else; no session is rebound or
\* modified: every session object keeps its fields and its connection, and
\* every entry but the sender's own, which the error response removes, stays
\* under its key.
C20_ReconnectRejected ==
  [][(ev'.op = "reconnect" /\ ev'.sess = NoSession)
       => /\ ev'.info = "missing" =>
               ev'.sends = <<[to |-> ev'.conn, msg |-> ErrorMsg("sessionId required")]>>
          /\ ev'.info # "missing" =>
               ev'.sends = <<[to |-> ev'.conn, msg |-> ErrorMsg("session_not_found")]>>
          /\ ev'.hooks = <<>>
          /\ \A k \in Conn :
               /\ sessions'[k] \in {sessions[k], NoSession}
               /\ sessions'[k] # NoSession => heap'[sessions'[k]] = heap[sessions[k]]
               /\ k # ev'.conn => sessions'[k] = sessions[k] /\ ready'[k] = ready[k]]_vars

\* a reconnect naming no session has been refused while a page's session,
\* activated, was in the table
C20_Witness ==
  /\ ev.op = "reconnect" /\ ev.info = "stray"
  /\ Len(ev.sends) = 1
  /\ \E k \in Conn : /\ k # ev.conn /\ sessions[k] # NoSession
                     /\ heap[sessions[k]].isBrowserSession
                     /\ heap[sessions[k]].clientSessionId # NoCsid

\* C21: when the socket of the RPC client closes, every request pending at
\* that moment is rejected with the connection-closed error, and the table
\* of pending requests is empty afterwards.
C21_CloseRejectsPending ==
  [][ev'.op = "rpc_close_event"
       => /\ rpc'.pending = {}
          /\ \A id \in rpc.pending :
               /\ rpc'.promise[id] = "rejected_closed"
               /\ rpc'.rejects[id] = rpc.rejects[id] + 1]_vars

\* the socket has closed with two requests pending and one answered before
C21_Witness ==
  /\ ev.op = "rpc_close_event"
  /\ Cardinality({id \in RequestIds : rpc.promise[id] = "rejected_closed"}) = 2
  /\ \E id \in RequestIds : rpc.promise[id] = "resolved"

\* C22: a request is settled once: its promise, once resolved or rejected,
\* stays as it is; resolve is called at most once and never for a request
\* that has been rejected, and reject never for one that has been resolved.
\* A request not yet settled is in the table with its timer armed, so that
\* its reply, its timeout or the close settles it. A reply that carries no
\* id, an id never issued, or the id of a request already settled changes
\* nothing.
C22_SettledOnce ==
  [][/\ \A id \in RequestIds :
          /\ rpc.promise[id] \notin {"none", "pending"} => rpc'.promise[id] = rpc.promise[id]
          /\ rpc'.resolves[id] <= 1
          /\ rpc'.resolves[id] = 0 \/ rpc'.rejects[id] = 0
          /\ rpc'.promise[id] = "pending" <=> id \in rpc'.pending
          /\ id \in rpc'.pending => id \in rpc'.timers
     /\ (ev'.op = "rpc_message" /\ ev'.conn \notin rpc.pending) => rpc' = rpc]_vars

\* a reply has come for a request that had timed out
C22_Witness ==
  /\ ev.op = "rpc_message" /\ ev.info = "ok" /\ ev.conn \in RequestIds
  /\ rpc.promise[ev.conn] = "rejected_timeout"

\* C23: a send takes the id one above the last, the first being 1, above
\* every id issued before; a reply settles the pending request whose id it
\* carries and no other, whatever the order of the replies.
C23_FreshIdsMatched ==
  [][/\ (ev'.op = "rpc_send" /\ ev'.info = "-")
          => /\ ev'.conn = rpc.requestId + 1
             /\ rpc'.requestId = ev'.conn
             /\ \A id \in RequestIds : rpc.promise[id] # "none" => id < ev'.conn
             /\ rpc.promise[ev'.conn] = "none" /\ rpc'.promise[ev'.conn] = "pending"
             /\ (\A id \in RequestIds : rpc.promise[id] = "none") => ev'.conn = 1
     /\ (ev'.op = "rpc_message" /\ ev'.conn \in rpc.pending)
          => /\ rpc'.promise[ev'.conn] = IF ev'.info = "error" THEN "rejected_reply" ELSE "resolved"
             /\ rpc'.pending = rpc.pending \ {ev'.conn}
             /\ \A id \in RequestIds \ {ev'.conn} : rpc'.promise[id] = rpc.promise[id]]_vars

\* the reply to the third request has come while the first two were pending
C23_Witness ==
  /\ ev.op = "rpc_message" /\ ev.info = "ok" /\ ev.conn = 3
  /\ rpc.promise[3] = "resolved" /\ rpc.pending = {1, 2}

C25_HookErrorNotSent ==
  \A i \in 1..Len(ev.sends) : ev.sends[i].msg.message # "hook_error"

\* C26: an auth whose bundle has a valid signing key and an encapsulation
\* key that is absent or of the wrong size goes on to the signature check,
\* and with a valid signature to onSuccess.
C26_EncapsulationKeyTolerated ==
  [][(ev'.op = "auth_verify" /\ ev'.info \in {"no_encrypt_key", "encrypt_key_size"})
       => /\ HooksOf(ev', "onSuccess") # {}
          /\ SentTo(ev', ev'.conn, COMMAND_ERROR) = {}]_vars

\* --------------------------------------------------- the keep-alive prober
\* The constructor's setInterval visits wsServer.clients in the order the
\* connections were accepted. A socket that has left OPEN is in the set only
\* until its 'close' event; terminate() and ping() do nothing to it.

\* the flag left as it was
probeKept(alive, c) == alive

\* `ws.isAlive = false; ws.ping()`
probe(alive, c) == [alive EXCEPT ![c] = FALSE]

\* One run of the interval's callback from connection c on. The 'close'
\* events of the sockets it terminates (code 1006) are taken with it, in the
\* order of the terminations.
RECURSIVE pingSweep(_, _, _)
pingSweep(st, alive, c) ==
  IF c > NConn THEN [st |-> st, alive |-> alive]
  ELSE IF ready[c] # "OPEN" THEN pingSweep(st, alive, c + 1)
  ELSE IF ~alive[c]
       THEN pingSweep(handleClose(terminate(st, c), c, 1006), alive, c + 1)
       ELSE pingSweep(st, probe(alive, c), c + 1)

PingTick ==
  /\ \E c \in Conn : ready[c] = "OPEN"
  /\ \E r \in {pingSweep(Here, isAlive, 1)} :
       /\ CommitEngine(r.st, tasks)
       /\ isAlive' = closedFlags(r.st, r.alive)
       /\ ev' = Ev("ping", 0, NoSession, "-", r.st)
  /\ UNCHANGED <<timersFired, rpc, aes>>

\* ws 'pong' of a connection that was probed
Pong ==
  \E c \in Conn :
    /\ ready[c] = "OPEN" /\ ~isAlive[c]
    /\ isAlive' = [isAlive EXCEPT ![c] = TRUE]
    /\ CommitEngine(Here, tasks)
    /\ ev' = Ev("pong", c, sessions[c], "-", Here)
    /\ UNCHANGED <<timersFired, rpc, aes>>

NextPing ==
  \/ Connect \/ PeerClose \/ TimerFire
  \/ AuthInit \/ AuthInitResume
  \/ PingTick \/ Pong

SpecPing == Init /\ [][NextPing]_vars

\* C27: a run of the prober terminates exactly the open connections that
\* have not answered the probe before it and probes the others; an answer
\* clears a connection until the next probe; no other step, a session timer
\* least of all, touches the record of the answers of a connection it leaves
\* open, and the prober touches no timer.
C27_ProbeTerminatesSilent ==
  [][/\ (ev'.op = "ping" =>
            /\ \A c \in Conn :
                 IF ready[c] # "OPEN" THEN ready'[c] = ready[c] /\ isAlive'[c] = isAlive[c]
                 ELSE IF isAlive[c] THEN ready'[c] = "OPEN" /\ ~isAlive'[c]
                 ELSE ready'[c] = "CLOSED"
            /\ timersFired' = timersFired)
      /\ (ev'.op = "pong" =>
            /\ isAlive' = [isAlive EXCEPT ![ev'.conn] = TRUE]
            /\ ready' = ready)
      /\ (ev'.op \notin {"ping", "pong"}
            => \A c \in Conn : ready'[c] = "OPEN" => isAlive'[c] = isAlive[c])]_vars

\* a connection that answered one probe and not the next is terminated
C27_Witness ==
  /\ ev.op = "ping" /\ HooksOf(ev, "onDecline") # {}
  /\ \E c \in Conn : ready[c] = "CLOSED" /\ ~isAlive[c] /\ sessions[c] = NoSession
  /\ \E c \in Conn : ready[c] = "OPEN" /\ ~isAlive[c]
  /\ timersFired > 0

\* ---------------------------------------------------------- health probes
\* readMessage answers 'health' with {status: 'ok'}, a map with no "_";
\* request() transmits what readMessage returned with send(), which closes
\* nothing. Any peer may probe on its connection, at any time.
STATUS_OK == "ok"

responseHealth(st, c) == send(st, c, [Msg("-", "-") EXCEPT !.status = STATUS_OK])

Health ==
  \E c \in Conn :
    /\ ready[c] = "OPEN"
    /\ \E st \in {responseHealth(Here, c)} :
         /\ Commit(st, tasks)
         /\ ev' = Ev("health", c, sessions[c], "-", st)
    /\ UNCHANGED timersFired

NextHealth ==
  \/ Connect \/ Health
  \/ AuthInit \/ AuthInitResume \/ Activate \/ ActivateResume
  \/ Auth \/ AuthVerify \/ AuthFinish

SpecHealth == Init /\ [][NextHealth]_vars

\* C28: a step that sends a message on a connection of the Gate or of a
\* wallet closes that connection and removes the entry under its clientId.
C28_OneShotClosed ==
  [][\A i \in 1..Len(ev'.sends) :
       LET c == ev'.sends[i].to IN
       role[c] \in {"gate", "wallet"}
         => ready'[c] = "CLOSED" /\ sessions'[c] = NoSession]_vars

\* the steps in which a request arrives
ReceiveOps == {"auth_init", "activate", "auth", "declined", "reconnect", "bad", "health"}

\* C30: a request that arrives while the handler of an earlier request of
\* its connection is suspended is not answered before that handler has
\* answered.
C30_AnsweredInOrder ==
  [][(ev'.op \in ReceiveOps /\ \E t \in tasks : t.conn = ev'.conn)
       => \A i \in 1..Len(ev'.sends) : ev'.sends[i].to # ev'.conn]_vars

\* C29: when the connection of the Gate or of a wallet closes abnormally
\* while its request is being handled for a session whose page is connected,
\* that page is sent 'connection_failed' in the step that removes the entry
\* of the closing connection.
C29_CounterpartNotified ==
  [][(/\ ev'.op = "close" /\ ~isNormal(ev'.code)
      /\ role[ev'.conn] \in {"gate", "wallet"}
      /\ sessions[ev'.conn] # NoSession)
       => \A t \in tasks :
            (t.conn = ev'.conn /\ t.sess # NoSession /\ ready[heap[t.sess].client] = "OPEN")
              => SentTo(ev', heap[t.sess].client, COMMAND_CONNECTION_FAILED) # {}]_vars

\* ------------------------------------------- encryptBuffer, decryptBuffer
\* AES-256-CBC with PKCS#7 padding over 16-byte blocks, the key the first 32
\* hex digits of the SHA-256 of the key string, the IV 16 random bytes put in
\* front of the ciphertext. Bytes are 0..255, buffers and strings sequences
\* of them. SHA-256 and the AES block permutation are stood for by a digest
\* and a keyed permutation of blocks of the same shapes: a function of the
\* whole string to hex digits, and a bijection of blocks for each key with
\* its inverse computed separately.
BLOCK == 16
IV_LENGTH == 16
KEY_LENGTH == 32
MaxLen == 33

RECURSIVE xor(_, _)
xor(a, b) ==
  IF a = 0 THEN b
  ELSE IF b = 0 THEN a
  ELSE 2 * xor(a \div 2, b \div 2) + ((a + b) % 2)

RECURSIVE weigh(_, _)
weigh(str, i) == IF str = <<>> THEN 0 ELSE (Head(str) * i + weigh(Tail(str), i + 1)) % 256

\* createHash('sha256').update(key).digest('hex').substring(0, 32)
hashedKey(key) ==
  [i \in 1..KEY_LENGTH |-> (7 * Len(key) + 3 * i + weigh(key, i)) % 16]

\* one block through the cipher under the key, and back
cipherBlock(k, b) ==
  [i \in 1..BLOCK |-> (b[(i % BLOCK) + 1] + 16 * k[i] + k[i + BLOCK]) % 256]

decipherBlock(k, c) ==
  [i \in 1..BLOCK |->
     LET j == IF i = 1 THEN BLOCK ELSE i - 1
     IN (c[j] + 256 - ((16 * k[j] + k[j + BLOCK]) % 256)) % 256]

xorBlock(a, b) == [i \in 1..BLOCK |-> xor(a[i], b[i])]

\* the padding of cipher.final(): 1..16 bytes, each their number
pkcs7Pad(buffer) ==
  LET p == BLOCK - (Len(buffer) % BLOCK)
  IN buffer \o [i \in 1..p |-> p]

\* the padding left on
pkcs7UnpadKept(padded) == [ok |-> TRUE, out |-> padded]

\* decipher.final(): the padding checked and taken off, 'bad decrypt' if it
\* is none
pkcs7Unpad(padded) ==
  LET n == Len(padded)
      p == IF n = 0 THEN 0 ELSE padded[n]
  IN IF n > 0 /\ p >= 1 /\ p <= BLOCK /\ \A i \in (n - p + 1)..n : padded[i] = p
     THEN [ok |-> TRUE, out |-> SubSeq(padded, 1, n - p)]
     ELSE [ok |-> FALSE, out |-> <<>>]

\* CBC: each block is mixed with the ciphertext block before it
RECURSIVE cbcEncrypt(_, _, _)
cbcEncrypt(k, prev, plain) ==
  IF plain = <<>> THEN <<>>
  ELSE LET c == cipherBlock(k, xorBlock(SubSeq(plain, 1, BLOCK), prev))
       IN c \o cbcEncrypt(k, c, SubSeq(plain, BLOCK + 1, Len(plain)))

RECURSIVE cbcDecrypt(_, _, _)
cbcDecrypt(k, prev, data) ==
  IF data = <<>> THEN <<>>
  ELSE LET c == SubSeq(data, 1, BLOCK)
       IN xorBlock(decipherBlock(k, c), prev) \o cbcDecrypt(k, c, SubSeq(data, BLOCK + 1, Len(data)))

encryptBuffer(buffer, key, iv) == iv \o cbcEncrypt(hashedKey(key), iv, pkcs7Pad(buffer))

\* throws (ok FALSE) on a ciphertext that is no whole number of blocks and
\* on bad padding
decryptBuffer(data, key) ==
  LET iv == SubSeq(data, 1, IV_LENGTH)
      encryptedData == SubSeq(data, IV_LENGTH + 1, Len(data))
  IN IF Len(data) <= IV_LENGTH \/ Len(encryptedData) % BLOCK # 0
     THEN [ok |-> FALSE, out |-> <<>>]
     ELSE pkcs7Unpad(cbcDecrypt(hashedKey(key), iv, encryptedData))

\* the buffers, key strings and IVs tried: every length up to MaxLen, so
\* that the padding is a whole block, a part of one and one byte; the empty
\* key, a one-letter key and a key longer than the 32 digits
Buffers ==
  {[i \in 1..n |-> (seed + step * i) % 256] : n \in 0..MaxLen, seed \in {0, 16, 255}, step \in {0, 1}}
Keys == {<<>>, <<107>>, [i \in 1..40 |-> 64 + i]}
Ivs == {[i \in 1..IV_LENGTH |-> 0], [i \in 1..IV_LENGTH |-> 255], [i \in 1..IV_LENGTH |-> (17 * i) % 256]}

InitAes ==
  /\ InitEngine(<<>>)
  /\ \E buffer \in Buffers, key \in Keys :
       aes = [NoBuffer EXCEPT !.pc = "plain", !.buffer = buffer, !.key = key]

Encrypt ==
  /\ aes.pc = "plain"
  /\ \E iv \in Ivs :
       aes' = [aes EXCEPT !.pc = "encrypted", !.data = encryptBuffer(aes.buffer, aes.key, iv)]
  /\ UNCHANGED <<engineVars, rpc, ev>>

Decrypt ==
  /\ aes.pc = "encrypted"
  /\ \E r \in {decryptBuffer(aes.data, aes.key)} :
       aes' = [aes EXCEPT !.pc = IF r.ok THEN "decrypted" ELSE "threw", !.out = r.out]
  /\ UNCHANGED <<engineVars, rpc, ev>>

NextAes == Encrypt \/ Decrypt

SpecAes == InitAes /\ [][NextAes]_vars

\* C31: decryptBuffer gives back the buffer encryptBuffer was given, under
\* the same key string, whatever the buffer, the key and the IV drawn.
C31_RoundTrip ==
  /\ aes.pc # "threw"
  /\ aes.pc = "decrypted" => aes.out = aes.buffer
  /\ aes.pc = "encrypted" => Len(aes.data) = IV_LENGTH + BLOCK * ((Len(aes.buffer) \div BLOCK) + 1)

\* a buffer of two whole blocks has made the round trip under a key string
\* longer than the derived key
C31_Witness ==
  /\ aes.pc = "decrypted"
  /\ Len(aes.buffer) = 2 * BLOCK /\ Len(aes.key) > KEY_LENGTH
  /\ aes.data # aes.buffer

\* C32: every session in the table is stored under one key only, and the
\* connection it is bound to is the one whose clientId is that key (the
\* table being a map, a clientId has at most one session).
C32_TableWellFormed ==
  \A k \in Conn :
    sessions[k] # NoSession
      => /\ heap[sessions[k]].client = k
         /\ \A j \in Conn \ {k} : sessions[j] # sessions[k]

\* a reconnect has moved a session to the key of another connection, after
\* which the connection it was created for has closed
C32_Witness ==
  /\ \E k \in Conn : sessions[k] # NoSession /\ sessions[k] # k /\ ready[sessions[k]] = "CLOSED"
  /\ ev.op = "close"

\* C40: every open connection has an entry under its own clientId.
C40_OpenHasEntry ==
  \A c \in Conn : ready[c] = "OPEN" => sessions[c] # NoSession

\* C33: a session has no clientSessionId while it has no address, a
\* clientSessionId once set is never replaced by another, and no two
\* sessions hold the same one.
C33_ClientSessionIdOnce ==
  [][\A s \in Conn :
       /\ heap'[s].address = NullAddr => heap'[s].clientSessionId = NoCsid
       /\ (heap[s].clientSessionId # NoCsid /\ heap'[s].clientSessionId # NoCsid)
            => heap'[s].clientSessionId = heap[s].clientSessionId
       /\ \A r \in Conn \ {s} :
            heap'[s].clientSessionId # NoCsid => heap'[r].clientSessionId # heap'[s].clientSessionId]_vars

\* C34: for a session on which a wallet's decline has been stored, no step
\* invokes onSuccess, sends an auth_result or stores an authResult.
C34_DeclinedTerminal ==
  [][/\ \A i \in HooksOf(ev', "onSuccess") : ~heap[ev'.hooks[i].sess].declineResult
     /\ \A s \in Conn :
          heap[s].declineResult
            => /\ heap'[s].authResult = heap[s].authResult
               /\ (ev'.sess = s /\ ev'.op = "auth_done")
                    => \A c \in Conn : SentTo(ev', c, COMMAND_AUTH_RESULT) = {}]_vars

\* C35: onDecline is never invoked for a session that holds the token of a
\* completed auth, by the timer or by a close.
C35_NoDeclineAfterCompleted ==
  [][\A i \in HooksOf(ev', "onDecline") :
       heap[ev'.hooks[i].sess].authResult = NoToken]_vars

\* --------------------------------------- a reconnect from any page
\* responseReconnect does not ask what the connection that sends 'reconnect'
\* has done before: a page that has run auth_init on its connection may name
\* the sessionId of another login.
ReconnectFromPage ==
  \E c \in Conn, sid \in known.sid :
    /\ CanHandle(c, "browser")
    /\ replays[sid] < MaxReplays
    /\ \E st \in {responseReconnect(Here, c, sid)} :
         /\ Commit(st, tasks)
         /\ ev' = Ev("reconnect", c, findSession(Here, "sessionId", sid), "ok", st)
    /\ UNCHANGED timersFired

\* three pages and nobody else
Pages == <<"browser", "browser", "browser">>

NextRebind ==
  \/ Connect \/ PeerClose \/ ReconnectFromPage
  \/ AuthInit \/ AuthInitResume

SpecRebind == InitCast(Pages) /\ [][NextRebind]_vars

\* C36: a reconnect that finds its session changes, of that session, only
\* the connection it is bound to, and of the table only the key it is
\* stored under; it invokes no hook, and every other browser-role session of
\* the table stays in the table as it was.
C36_ReconnectFrame ==
  [][(ev'.op = "reconnect" /\ ev'.sess # NoSession)
       => LET s == ev'.sess IN
          /\ heap'[s] = [heap[s] EXCEPT !.client = ev'.conn]
          /\ sessions'[ev'.conn] = s
          /\ ev'.hooks = <<>>
          /\ \A k \in Conn :
               (sessions[k] # NoSession /\ sessions[k] # s /\ heap[sessions[k]].isBrowserSession)
                 => sessions'[k] = sessions[k] /\ heap'[sessions[k]] = heap[sessions[k]]]_vars

\* C37: a 'declined' invokes onDecline only if its payload resolves to an
\* activated session, and then for that session, with its address; one
\* that resolves to no session is acknowledged with no hook invoked.
C37_DeclineHookResolved ==
  [][ev'.op = "declined"
       => IF ev'.sess # NoSession
          THEN \A i \in HooksOf(ev', "onDecline") :
                 /\ ev'.hooks[i].sess = ev'.sess
                 /\ ev'.hooks[i].address = heap[ev'.sess].address
                 /\ heap[ev'.sess].clientSessionId # NoCsid
          ELSE /\ HooksOf(ev', "onDecline") = {}
               /\ ready[ev'.conn] = "OPEN" => SentTo(ev', ev'.conn, COMMAND_AUTH_DECLINED) # {}]_vars

\* C38: onSuccess is invoked only with the address stored on the session the
\* auth resolved to.
C38_SuccessAddressMatches ==
  [][\A i \in HooksOf(ev', "onSuccess") :
       ev'.hooks[i].address = heap[ev'.hooks[i].sess].address]_vars

\* C39: an activate that ends with the identity hook failing, no other
\* activate of the session being under way or answered with 'ready', leaves
\* the session as one that is not activated: a later activate is not
\* refused as 'Session already activated'; and an activate refused at once
\* changes no session.
C39_ActivationAllOrNothing ==
  [][/\ (/\ ev'.op = "activate_done" /\ ev'.info = "throw"
         /\ ev'.sess \notin known'.csid
         /\ \A t \in tasks' : ~(t.cmd = "activate" /\ t.sess = ev'.sess))
          => ~alreadyActivated(heap'[ev'.sess])
     /\ (ev'.op = "activate" /\ ev'.info = "already")
          => \A s \in Conn :
               (\E k \in Conn : sessions'[k] = s)
                 => /\ heap'[s].address = heap[s].address
                    /\ heap'[s].clientSessionId = heap[s].clientSessionId]_vars
====
